---- MODULE Spec2Model ----
(***************************************************************************)
(* Model of osi_printer.py: the NP-3511D command encoder (class Np3511d),  *)
(* the label jobs button_print_callback and print_excel, and the paper     *)
(* jog buttons.                                                            *)
(*                                                                         *)
(* Lengths are integers counted in sub-steps: one device step is 1/8 mm    *)
(* and one step is SubSteps sub-steps, so a distance that is not a whole   *)
(* number of steps is representable and int() truncation is observable.    *)
(* Every length the label jobs compute is a multiple of 1/8 mm below       *)
(* 2^10 mm, which binary floating point represents exactly, so integer     *)
(* arithmetic on sub-steps computes what the Python floats compute.        *)
(***************************************************************************)
EXTENDS Integers, Sequences, FiniteSets, TLC

\* ------------------------------------------------------------------ bounds
SubSteps == 4        \* sub-steps per device step (resolution of a distance)
MaxDistMm == 70      \* feed harness: distances range over -70 mm .. 70 mm
MaxLen == 7          \* longest identifier typed into entrada_osi
MaxRows == 5         \* most rows of the spreadsheet read by print_excel

\* ------------------------------------------------------ program constants
StepsPerMm == 8                      \* feed resolution: 1/8 mm per step
Unit(mm) == mm * StepsPerMm * SubSteps
Step == SubSteps                     \* one device step, in sub-steps
FULL_STEPS == 255                    \* int(31.875 * 8)
FULL_FEED == FULL_STEPS * SubSteps   \* 31.875 mm

CUTTER_OFFSET == Unit(19) \div 2     \* 9.5 mm
POST_CUT_ADV == Unit(2)
MARGIN == Unit(4)
AJUSTE_OffGrid == Unit(6) + 1           \* variant of AJUSTE: off the 1/8 mm grid
AJUSTE == Unit(6)
LINE == Unit(6)                      \* head_pos += 6 after a printed line

label_type_list ==
    {"Salida Parte", "Ingreso Equipo", "Ingreso Golden Unit", "Libre", "Excel"}
label_size_list == {50, 40, 49}
gap_size_list == {5, 6, 4}

\* Python int(a / b) for b > 0: truncation toward zero.
Trunc(a, b) == IF a >= 0 THEN a \div b ELSE -((-a) \div b)

\* ------------------------------------------------------- command encoder
\* One element of the Dummy printer's output: an opcode and its operands.
Cmd(op, a, b) == [op |-> op, a |-> a, b |-> b]

reset == Cmd("reset", 0, 0)
full_cut == Cmd("cut", 0, 0)
set_double_width_and_height == Cmd("font", 56, 0)
set_enhanced_print_on == Cmd("enhanced", 1, 0)
set_double_strike_on == Cmd("dstrike", 1, 0)

set_max_print_speed(speed) ==
    Cmd("speed", CASE speed = 200 -> 0
                   [] speed = 150 -> 1
                   [] speed = 125 -> 2
                   [] speed = 100 -> 3
                   [] OTHER -> 4, 0)

set_alignment(alignment) ==
    Cmd("align", CASE alignment = "RIGHT" -> 2
                   [] alignment = "CENTER" -> 1
                   [] OTHER -> 0, 0)

\* bytes([n]): the byte n, or ValueError (written -1) outside 0..255.
bytes1(n) == IF n \in 0..255 THEN n ELSE -1

\* Variant of set_print_density: the upper limit is not applied.
set_print_density_NoUpper(density) ==
    Cmd("density", bytes1(IF density < 65 THEN 65 ELSE density), 0)

set_print_density(density) ==
    Cmd("density", bytes1(IF density < 65 THEN 65
                          ELSE IF density > 130 THEN 130 ELSE density), 0)

\* Variant of set_lf_pitch: the lower limit is not applied.
set_lf_pitch_NoLower(pitch) ==
    Cmd("lf_pitch", bytes1(IF pitch > 255 THEN 255 ELSE pitch), 0)

set_lf_pitch(pitch) ==
    Cmd("lf_pitch", bytes1(IF pitch < 0 THEN 0
                           ELSE IF pitch > 255 THEN 255 ELSE pitch), 0)

set_barcode_width(width) ==
    Cmd("bc_width", CASE width = 4 -> 4
                      [] width = 2 -> 2
                      [] OTHER -> 3, 0)

set_margins(margen_izq, ancho_impresion) ==
    Cmd("margins", margen_izq, ancho_impresion)

\* p.text(...) and p.barcode(...) of the escpos Dummy: one emission each.
text == Cmd("text", 0, 0)
barcode(width, height) == Cmd("barcode", width, height)

\* Variant of RestoSteps: the remainder rounded to the nearest step.
RestoSteps_Rounded(resto) == (2 * resto + Step) \div (2 * Step)

\* The remainder command of a feed: int(resto * 8) steps.
RestoSteps(resto) == resto \div Step

\* Variant of FeedCmds: no remainder command when the remainder is zero.
FeedCmds_NoZeroResto(op, distance) ==
    LET multiplos == distance \div FULL_FEED
        resto == distance % FULL_FEED
    IN  [k \in 1..multiplos |-> Cmd(op, FULL_STEPS, 0)]
            \o (IF resto = 0 THEN << >>
                ELSE << Cmd(op, resto \div Step, 0) >>)

\* Variant of FeedCmds: the loop of full commands stops one short.
FeedCmds_LoopOneShort(op, distance) ==
    LET multiplos == distance \div FULL_FEED
        resto == distance % FULL_FEED
    IN  [k \in 1..(multiplos - 1) |-> Cmd(op, FULL_STEPS, 0)]
            \o << Cmd(op, resto \div Step, 0) >>

\* The commands one feed call appends for a distance >= 0: the while loop
\* of full commands, then the remainder command.
FeedCmds(op, distance) ==
    LET multiplos == distance \div FULL_FEED
        resto == distance % FULL_FEED
    IN  [k \in 1..multiplos |-> Cmd(op, FULL_STEPS, 0)]
            \o << Cmd(op, RestoSteps(resto), 0) >>

RECURSIVE feed_backward_mm(_)

\* Variant of feed_forward_mm: a redirected call returns the magnitude.
feed_forward_mm_Unsigned(distance) ==
    IF distance < 0
    THEN [cmds |-> feed_backward_mm(-distance).cmds, ret |-> -distance]
    ELSE [cmds |-> FeedCmds("feed_fwd", distance), ret |-> distance]

\* Result of a call: the commands appended and the value returned.
feed_forward_mm(distance) ==
    IF distance < 0
    THEN feed_backward_mm(-distance)
    ELSE [cmds |-> FeedCmds("feed_fwd", distance), ret |-> distance]

\* Variant of feed_backward_mm: the remainder rounded to the nearest step.
feed_backward_mm_Rounded(distance) ==
    IF distance < 0
    THEN feed_forward_mm(-distance)
    ELSE [cmds |-> [k \in 1..(distance \div FULL_FEED) |->
                        Cmd("feed_bwd", FULL_STEPS, 0)]
                   \o << Cmd("feed_bwd",
                             RestoSteps_Rounded(distance % FULL_FEED), 0) >>,
          ret |-> -distance]

feed_backward_mm(distance) ==
    IF distance < 0
    THEN feed_forward_mm(-distance)
    ELSE [cmds |-> FeedCmds("feed_bwd", distance), ret |-> -distance]

\* Variant of Configure: the margins set before the font and alignment.
Configure_MarginsEarly ==
    << reset,
       set_lf_pitch(0),
       set_margins(6, 66),
       set_double_width_and_height,
       set_alignment("LEFT"),
       set_max_print_speed(75),
       set_print_density(130),
       set_enhanced_print_on,
       set_double_strike_on >>

\* The fixed configuration both label jobs start with.
Configure ==
    << reset,
       set_lf_pitch(0),
       set_double_width_and_height,
       set_alignment("LEFT"),
       set_max_print_speed(75),
       set_print_density(130),
       set_enhanced_print_on,
       set_double_strike_on,
       set_margins(6, 66) >>

\* Variant of AlignDistance: the advance after the cut left out.
AlignDistance_NoPostCut(g) == CUTTER_OFFSET - Unit(g) \div 2 - MARGIN

\* The backward feed from the cut line to the first line of the next label.
AlignDistance(g) == CUTTER_OFFSET - Unit(g) \div 2 - MARGIN + POST_CUT_ADV

\* head_pos = MARGIN + gap/2
HeadStart(g) == MARGIN + Unit(g) \div 2

\* Variant of Separacion: the space divided by the number of blocks.
Separacion_PerBlock(alto, nro_lineas, nro_bloques) ==
    Trunc(Unit(alto) - 2 * MARGIN - LINE * nro_lineas,
          nro_bloques * Step) * Step

\* Variant of Separacion: truncated to whole millimetres.
Separacion_WholeMm(alto, nro_lineas, nro_bloques) ==
    Trunc(Unit(alto) - 2 * MARGIN - LINE * nro_lineas,
          (nro_bloques - 1) * Unit(1)) * Unit(1)

\* separacion = int(((alto - 2*MARGIN - 6*nro_lineas) / (nro_bloques-1)) * 8) / 8
Separacion(alto, nro_lineas, nro_bloques) ==
    Trunc(Unit(alto) - 2 * MARGIN - LINE * nro_lineas,
          (nro_bloques - 1) * Step) * Step

\* ---------------------------------------------------------------- state
VARIABLES
    tipo_etiqueta,     \* optionmenu_label_type
    alto_etiqueta,     \* optionmenu_label_size, mm
    gap,               \* optionmenu_gap_size, mm
    entrada_osi,       \* the length of the text typed into entrada_osi
    checkbox_borrado,  \* "Borrar Entradas"
    handler,           \* the callback that is running, "none" in the main loop
    pc,                \* its position
    ip,                \* position in the label body being composed
    output,            \* p.output: the commands buffered by the Dummy printer
    head_pos,          \* tracked head position, sub-steps
    separacion,        \* spacing between blocks, sub-steps
    delivered,         \* the buffers print_buffer received in this run
    rows,              \* number of rows of the spreadsheet (df.values)
    i,                 \* print_excel: rows started so far
    d,                 \* harness: the distance (sub-steps) or argument under test
    calls              \* harness: the calls made so far, with results

vars == << tipo_etiqueta, alto_etiqueta, gap, entrada_osi, checkbox_borrado,
           handler, pc, ip, output, head_pos, separacion, delivered, rows, i,
           d, calls >>

ui == << tipo_etiqueta, alto_etiqueta, gap, entrada_osi, checkbox_borrado >>
harness == << d, calls >>

\* Variant of IntakeBody: a spacing feed after the third block as well.
IntakeBody_TrailingSep ==
    << "check", "plan", "text", "barcode", "sep", "text", "barcode", "sep",
       "text", "sep", "final" >>

\* ------------------------------------------------- the body of one label
\* The statements of each case of the match in button_print_callback, in
\* source order.  "check" is the identifier-length test, "plan" computes
\* separacion, "sep" is an inter-block feed and "final" the feed to the
\* cut point.  No case matches "Excel".
IntakeBody ==
    << "check", "plan", "text", "barcode", "sep", "text", "barcode", "sep",
       "text", "final" >>

OutboundBody ==
    << "plan", "text", "sep", "text", "text", "sep", "text", "barcode",
       "final" >>

LibreBody ==
    << "plan", "text", "sep", "text", "sep", "text", "sep", "text", "sep",
       "text", "sep", "final" >>

Body(tipo) ==
    CASE tipo \in {"Ingreso Equipo", "Ingreso Golden Unit"} -> IntakeBody
      [] tipo = "Salida Parte" -> OutboundBody
      [] tipo = "Libre" -> LibreBody
      [] OTHER -> << >>

\* The body print_excel composes for every row (separacion is computed at
\* the top of the loop).
ExcelBody ==
    << "text", "sep", "text", "text", "sep", "text", "barcode", "final" >>

NroBloques(tipo) == IF tipo = "Libre" THEN 5 ELSE 3

\* width= of the p.barcode call (escpos default 3 when not passed)
BarcodeWidth(tipo) == IF tipo = "Ingreso Equipo" THEN 3
                      ELSE IF tipo = "Ingreso Golden Unit" THEN 3 ELSE 4

\* Variant of FinalAdjust: AJUSTE added for every label.
FinalAdjust_Always(tipo) == AJUSTE

\* The final feed adds AJUSTE for the two intake labels only.
FinalAdjust(tipo) ==
    IF tipo \in {"Ingreso Equipo", "Ingreso Golden Unit"} THEN AJUSTE ELSE 0

\* Variant of FinalDistance: the head position added, not subtracted.
FinalDistance_PlusPos(tipo, alto, g, pos) ==
    Unit(alto) + Unit(g) + pos + CUTTER_OFFSET + FinalAdjust(tipo)

FinalDistance(tipo, alto, g, pos) ==
    Unit(alto) + Unit(g) - pos + CUTTER_OFFSET + FinalAdjust(tipo)

\* The label the running handler composes and its body.
JobTipo == IF handler = "excel" THEN "Salida Parte" ELSE tipo_etiqueta
JobBody == IF handler = "excel" THEN ExcelBody ELSE Body(tipo_etiqueta)
Instr == IF ip \in 1..Len(JobBody) THEN JobBody[ip] ELSE "end"

\* ------------------------------------------------------------------ Init
Init ==
    /\ tipo_etiqueta = "Salida Parte"
    /\ alto_etiqueta = 50
    /\ gap = 5
    /\ entrada_osi = 0
    /\ checkbox_borrado = FALSE
    /\ handler = "none"
    /\ pc = "idle"
    /\ ip = 0
    /\ output = << >>
    /\ head_pos = 0
    /\ separacion = 0
    /\ delivered = << >>
    /\ rows = 0
    /\ i = 0
    /\ d = 0
    /\ calls = << >>

job == << handler, pc, ip, output, head_pos, separacion, delivered, rows, i >>

\* ------------------------------------------------------- the form (idle)
SelectLabelType ==
    /\ pc = "idle"
    /\ \E t \in label_type_list : tipo_etiqueta' = t
    /\ entrada_osi' = 0         \* label_type_callback: limpiar_entradas()
    /\ UNCHANGED << alto_etiqueta, gap, checkbox_borrado, job, harness >>

SelectLabelSize ==
    /\ pc = "idle"
    /\ \E a \in label_size_list : alto_etiqueta' = a
    /\ UNCHANGED << tipo_etiqueta, gap, entrada_osi, checkbox_borrado, job,
                    harness >>

SelectGapSize ==
    /\ pc = "idle"
    /\ \E g \in gap_size_list : gap' = g
    /\ UNCHANGED << tipo_etiqueta, alto_etiqueta, entrada_osi, checkbox_borrado,
                    job, harness >>

TypeOsi ==
    /\ pc = "idle"
    /\ \E n \in 0..MaxLen : entrada_osi' = n
    /\ UNCHANGED << tipo_etiqueta, alto_etiqueta, gap, checkbox_borrado, job,
                    harness >>

ToggleBorrado ==
    /\ pc = "idle"
    /\ checkbox_borrado' = ~checkbox_borrado
    /\ UNCHANGED << tipo_etiqueta, alto_etiqueta, gap, entrada_osi, job, harness >>

\* ------------------------------------------------ button_print_callback
\* p = Np3511d() and the configuration commands.
PrintConfigure ==
    /\ pc = "idle"
    /\ handler' = "print"
    /\ pc' = "configured"
    /\ output' = Configure
    /\ UNCHANGED << ui, ip, head_pos, separacion, delivered, rows, i, harness >>

\* Read the form, feed back to the first line of the label (the returned
\* value is dropped) and initialise head_pos.
Align ==
    /\ pc = "configured"
    /\ output' = output \o feed_backward_mm(AlignDistance(gap)).cmds
    /\ head_pos' = HeadStart(gap)
    /\ IF handler = "excel"
       THEN pc' = "loop" /\ ip' = ip
       ELSE pc' = "body" /\ ip' = 1
    /\ UNCHANGED << ui, handler, separacion, delivered, rows, i, harness >>

\* Variant of CheckOsi: only identifiers shorter than 6 are rejected.
CheckOsi_TooShortOnly ==
    /\ pc = "body" /\ Instr = "check"
    /\ IF entrada_osi < 6
       THEN /\ output' = << >>
            /\ pc' = "aborted"
            /\ ip' = ip
       ELSE /\ output' = output
            /\ pc' = pc
            /\ ip' = ip + 1
    /\ UNCHANGED << ui, handler, head_pos, separacion, delivered, rows, i,
                    harness >>

\* Variant of CheckOsi: the abort returns without p.clear().
CheckOsi_NoClear ==
    /\ pc = "body" /\ Instr = "check"
    /\ output' = output
    /\ IF entrada_osi # 6
       THEN pc' = "aborted" /\ ip' = ip
       ELSE pc' = pc /\ ip' = ip + 1
    /\ UNCHANGED << ui, handler, head_pos, separacion, delivered, rows, i,
                    harness >>

\* nro_osi = entrada_osi.get(); if len(nro_osi) != 6: p.clear(); p.close(); p = None; return
CheckOsi ==
    /\ pc = "body" /\ Instr = "check"
    /\ IF entrada_osi # 6
       THEN /\ output' = << >>
            /\ pc' = "aborted"
            /\ ip' = ip
       ELSE /\ output' = output
            /\ pc' = pc
            /\ ip' = ip + 1
    /\ UNCHANGED << ui, handler, head_pos, separacion, delivered, rows, i,
                    harness >>

\* nro_lineas = 5; nro_bloques = ...; separacion = ...
Plan ==
    /\ pc = "body" /\ Instr = "plan"
    /\ separacion' = Separacion(alto_etiqueta, 5, NroBloques(JobTipo))
    /\ ip' = ip + 1
    /\ UNCHANGED << ui, handler, pc, output, head_pos, delivered, rows, i,
                    harness >>

\* p.text(...); head_pos += 6
EmitText ==
    /\ pc = "body" /\ Instr = "text"
    /\ output' = Append(output, text)
    /\ head_pos' = head_pos + LINE
    /\ ip' = ip + 1
    /\ UNCHANGED << ui, handler, pc, separacion, delivered, rows, i, harness >>

\* p.barcode(...); head_pos += 6
EmitBarcode ==
    /\ pc = "body" /\ Instr = "barcode"
    /\ output' = Append(output, barcode(BarcodeWidth(JobTipo), 48))
    /\ head_pos' = head_pos + LINE
    /\ ip' = ip + 1
    /\ UNCHANGED << ui, handler, pc, separacion, delivered, rows, i, harness >>

\* head_pos += p.feed_forward_mm(separacion)
FeedSeparacion ==
    /\ pc = "body" /\ Instr = "sep"
    /\ LET r == feed_forward_mm(separacion)
       IN  /\ output' = output \o r.cmds
           /\ head_pos' = head_pos + r.ret
    /\ ip' = ip + 1
    /\ UNCHANGED << ui, handler, pc, separacion, delivered, rows, i, harness >>

\* head_pos += p.feed_forward_mm(alto_etiqueta + gap - head_pos
\*                                + CUTTER_OFFSET [+ AJUSTE])
FinalFeed ==
    /\ pc = "body" /\ Instr = "final"
    /\ LET r == feed_forward_mm(
                    FinalDistance(JobTipo, alto_etiqueta, gap, head_pos))
       IN  /\ output' = output \o r.cmds
           /\ head_pos' = head_pos + r.ret
    /\ ip' = ip + 1
    /\ UNCHANGED << ui, handler, pc, separacion, delivered, rows, i, harness >>

\* p.full_cut()
Cut ==
    /\ pc = "body" /\ Instr = "end"
    /\ output' = Append(output, full_cut)
    /\ pc' = "cut"
    /\ UNCHANGED << ui, handler, ip, head_pos, separacion, delivered, rows, i,
                    harness >>

\* print_buffer(p.output)
PrintBuffer ==
    /\ pc = "cut"
    /\ delivered' = Append(delivered, output)
    /\ pc' = IF handler = "excel" THEN "loop" ELSE "printed"
    /\ UNCHANGED << ui, handler, ip, output, head_pos, separacion, rows, i,
                    harness >>

\* p.clear(); p.close(); p = None
Close ==
    /\ \/ pc = "printed"
       \/ handler = "excel" /\ pc = "loop" /\ i = rows
    /\ output' = << >>
    /\ pc' = IF handler = "excel" THEN "done" ELSE "closed"
    /\ UNCHANGED << ui, handler, ip, head_pos, separacion, delivered, rows, i,
                    harness >>

\* if checkbox_borrado.get(): label_type_callback(tipo_etiqueta), which
\* empties the entries.
ClearEntries ==
    /\ pc = "closed"
    /\ entrada_osi' = IF checkbox_borrado THEN 0 ELSE entrada_osi
    /\ pc' = "done"
    /\ UNCHANGED << tipo_etiqueta, alto_etiqueta, gap, checkbox_borrado,
                    handler, ip, output, head_pos, separacion, delivered,
                    rows, i, harness >>

\* The callback has returned: its locals are gone and the main loop waits
\* for the next event.
Return ==
    /\ pc \in {"done", "aborted"}
    /\ handler' = "none"
    /\ pc' = "idle"
    /\ ip' = 0
    /\ output' = << >>
    /\ head_pos' = 0
    /\ separacion' = 0
    /\ delivered' = << >>
    /\ rows' = 0
    /\ i' = 0
    /\ UNCHANGED << ui, harness >>

\* ------------------------------------- button_forward / backward_callback
\* The buffer a jog button sends: one feed of 0.5 mm on a fresh printer.
JogForward == feed_forward_mm(Unit(1) \div 2).cmds
JogBackward == feed_backward_mm(Unit(1) \div 2).cmds

button_forward_callback ==
    /\ pc = "idle"
    /\ handler' = "forward"
    /\ delivered' = Append(delivered, JogForward)
    /\ pc' = "done"
    /\ UNCHANGED << ui, ip, output, head_pos, separacion, rows, i, harness >>

button_backward_callback ==
    /\ pc = "idle"
    /\ handler' = "backward"
    /\ delivered' = Append(delivered, JogBackward)
    /\ pc' = "done"
    /\ UNCHANGED << ui, ip, output, head_pos, separacion, rows, i, harness >>

\* ------------------------------------------------------------ print_excel
\* Read the spreadsheet, p = Np3511d() and the configuration commands.
ExcelConfigure ==
    /\ pc = "idle"
    /\ \E n \in 0..MaxRows : rows' = n
    /\ handler' = "excel"
    /\ pc' = "configured"
    /\ output' = Configure
    /\ i' = 0
    /\ UNCHANGED << ui, ip, head_pos, separacion, delivered, harness >>

\* Variant of ExcelRow: the loop body runs once more than there are rows.
ExcelRow_OneMore ==
    /\ handler = "excel" /\ pc = "loop" /\ i <= rows
    /\ i' = i + 1
    /\ separacion' = Separacion(alto_etiqueta, 5, 3)
    /\ delivered' = IF (i + 1) % 5 = 0
                    THEN Append(delivered, JogForward)
                    ELSE delivered
    /\ pc' = "body"
    /\ ip' = 1
    /\ UNCHANGED << ui, handler, output, head_pos, rows, harness >>

\* Top of the loop over df.values: i += 1, separacion, and on every fifth
\* row a call of button_forward_callback().
ExcelRow ==
    /\ handler = "excel" /\ pc = "loop" /\ i < rows
    /\ i' = i + 1
    /\ separacion' = Separacion(alto_etiqueta, 5, 3)
    /\ delivered' = IF (i + 1) % 5 = 0
                    THEN Append(delivered, JogForward)
                    ELSE delivered
    /\ pc' = "body"
    /\ ip' = 1
    /\ UNCHANGED << ui, handler, output, head_pos, rows, harness >>

Next ==
    \/ SelectLabelType
    \/ SelectLabelSize
    \/ SelectGapSize
    \/ TypeOsi
    \/ ToggleBorrado
    \/ PrintConfigure
    \/ Align
    \/ CheckOsi
    \/ Plan
    \/ EmitText
    \/ EmitBarcode
    \/ FeedSeparacion
    \/ FinalFeed
    \/ Cut
    \/ PrintBuffer
    \/ Close
    \/ ClearEntries
    \/ Return
    \/ button_forward_callback
    \/ button_backward_callback
    \/ ExcelConfigure
    \/ ExcelRow

Spec == Init /\ [][Next]_vars

\* ----------------------------------------------------------- feed harness
\* The two feed functions applied to one distance drawn from
\* -MaxDistMm .. MaxDistMm at sub-step resolution, on a fresh printer, up to
\* MaxCalls calls in a row.
MaxCalls == 2
MaxDist == Unit(MaxDistMm)

InitFeed ==
    /\ tipo_etiqueta = "Salida Parte"
    /\ alto_etiqueta = 50
    /\ gap = 5
    /\ entrada_osi = 0
    /\ checkbox_borrado = FALSE
    /\ handler = "harness"
    /\ pc = "harness"
    /\ ip = 0
    /\ output = << >>
    /\ head_pos = 0
    /\ separacion = 0
    /\ delivered = << >>
    /\ rows = 0
    /\ i = 0
    /\ d \in -MaxDist..MaxDist
    /\ calls = << >>

Called(fn, r) ==
    /\ output' = output \o r.cmds
    /\ calls' = Append(calls, [fn |-> fn, ret |-> r.ret, cmds |-> r.cmds])
    /\ UNCHANGED << ui, handler, pc, ip, head_pos, separacion, delivered,
                    rows, i, d >>

CallFeedForward ==
    /\ pc = "harness" /\ Len(calls) < MaxCalls
    /\ Called("feed_forward_mm", feed_forward_mm(d))

CallFeedBackward ==
    /\ pc = "harness" /\ Len(calls) < MaxCalls
    /\ Called("feed_backward_mm", feed_backward_mm(d))

NextFeed ==
    \/ CallFeedForward
    \/ CallFeedBackward

SpecFeed == InitFeed /\ [][NextFeed]_vars

\* ------------------------------------------------- vocabulary of the claims
Intake == {"Ingreso Equipo", "Ingreso Golden Unit"}

\* The opcodes of a buffer, in order.
Ops(buf) == [k \in 1..Len(buf) |-> buf[k].op]

\* How many commands of a buffer carry one of the opcodes.
CountOps(buf, ops) == Cardinality({k \in 1..Len(buf) : buf[k].op \in ops})

IsPrefix(s, t) == Len(s) <= Len(t) /\ s = SubSeq(t, 1, Len(s))

RECURSIVE SumA(_)
\* The sum of the step counts of a sequence of feed commands.
SumA(buf) == IF buf = << >> THEN 0 ELSE Head(buf).a + SumA(Tail(buf))

RECURSIVE TotalCuts(_)
\* The cut commands in all the buffers handed to print_buffer.
TotalCuts(bufs) ==
    IF bufs = << >> THEN 0
    ELSE CountOps(Head(bufs), {"cut"}) + TotalCuts(Tail(bufs))

\* The buffer after configuration and alignment, as the device protocol
\* encodes it (speed class 75 is byte 4, LEFT is byte 0).
ConfigExpected ==
    << Cmd("reset", 0, 0), Cmd("lf_pitch", 0, 0), Cmd("font", 56, 0),
       Cmd("align", 0, 0), Cmd("speed", 4, 0), Cmd("density", 130, 0),
       Cmd("enhanced", 1, 0), Cmd("dstrike", 1, 0), Cmd("margins", 6, 66) >>

PreambleLen == Len(ConfigExpected) + 1

\* A print job on an intake label whose identifier is not 6 characters
\* long, at any point before the entries may be emptied.
BadIntakeJob ==
    /\ handler = "print"
    /\ pc # "done"
    /\ tipo_etiqueta \in Intake
    /\ entrada_osi # 6

\* C1: an intake job (Ingreso Equipo or Ingreso Golden Unit) whose
\* identifier is not exactly 6 characters long aborts: print_buffer is never
\* invoked, no cut command is emitted, the job never gets past the length
\* test, and the buffered commands are discarded at the abort.
C1_AbortSendsNothing ==
    BadIntakeJob =>
        /\ delivered = << >>
        /\ CountOps(output, {"cut"}) = 0
        /\ pc \in {"configured", "body", "aborted"}
        /\ pc = "body" => Instr = "check"
        /\ pc = "aborted" => output = << >>

C1_Witness ==
    /\ handler = "print" /\ pc = "aborted"
    /\ tipo_etiqueta = "Ingreso Golden Unit"
    /\ entrada_osi = 7

\* C2 (as claimed): an Ingreso Equipo job whose identifier is not 6
\* characters long has an empty command buffer at every point of the job.
C2_BufferAlwaysEmpty ==
    (BadIntakeJob /\ tipo_etiqueta = "Ingreso Equipo") => output = << >>

\* C2 (amended): such a job aborts before any text, barcode, spacing feed or
\* cut command enters the buffer and before anything is handed to
\* print_buffer: at every point the buffer holds at most the nine
\* configuration commands and the backward alignment feed, and it is
\* emptied at the abort.
C2_OnlyPreambleBuffered ==
    (BadIntakeJob /\ tipo_etiqueta = "Ingreso Equipo") =>
        /\ IsPrefix(output,
                    ConfigExpected \o FeedCmds("feed_bwd", AlignDistance(gap)))
        /\ CountOps(output, {"text", "barcode", "feed_fwd", "cut"}) = 0
        /\ delivered = << >>
        /\ pc = "aborted" => output = << >>

C2_Witness ==
    /\ handler = "print" /\ pc = "aborted"
    /\ tipo_etiqueta = "Ingreso Equipo"
    /\ entrada_osi = 5
    /\ output = << >>

\* C3 (as claimed): a batch job over N rows delivers exactly N cut commands
\* to print_buffer, one label per row.
C3_OneLabelPerRow ==
    (handler = "excel" /\ pc = "done") => TotalCuts(delivered) = rows

\* The commands of one PartOutbound label after the preamble, for a head
\* that starts the label at margin + gap/2.
OutboundLabel(alto, g) ==
    LET sep == Separacion(alto, 5, 3)
        before == HeadStart(g) + 5 * LINE + 2 * sep
        final == Unit(alto) + Unit(g) + CUTTER_OFFSET - before
    IN  << Cmd("text", 0, 0),
           Cmd("feed_fwd", sep \div Step, 0),
           Cmd("text", 0, 0),
           Cmd("text", 0, 0),
           Cmd("feed_fwd", sep \div Step, 0),
           Cmd("text", 0, 0),
           Cmd("barcode", 4, 48),
           Cmd("feed_fwd", final \div Step, 0),
           Cmd("cut", 0, 0) >>

LastCmds(buf, n) == SubSeq(buf, Len(buf) - n + 1, Len(buf))

\* C4 (as claimed): every row of a batch job starts with the tracked head
\* position at margin + gap/2 and appends exactly the commands of a single
\* PartOutbound label of the same height and gap, the final feed being a
\* forward feed; the single PartOutbound job appends those commands too.
C4_RowsLikeOutbound ==
    /\ (handler = "excel" /\ pc = "body" /\ ip = 1) =>
            head_pos = HeadStart(gap)
    /\ (handler = "excel" /\ pc = "cut") =>
            /\ Len(output) >= PreambleLen + 9 * i
            /\ LastCmds(output, 9) = OutboundLabel(alto_etiqueta, gap)
    /\ (handler = "print" /\ tipo_etiqueta = "Salida Parte" /\ pc = "cut") =>
            SubSeq(output, PreambleLen + 1, Len(output))
                = OutboundLabel(alto_etiqueta, gap)

\* The position the final feed must leave the head at.
CutTarget ==
    Unit(alto_etiqueta) + Unit(gap) + CUTTER_OFFSET
        + (IF tipo_etiqueta \in Intake THEN Unit(6) ELSE 0)

\* A single-label job that has just made its final feed.
AfterFinalFeed ==
    /\ handler = "print" /\ pc = "body"
    /\ ip = Len(JobBody) + 1
    /\ ip > 1

\* C5: for every label height and gap, after the final feed of a
\* single-label job the tracked head position is labelHeight + gap +
\* cutterOffset, plus 6 mm for the two intake labels only, and the next
\* command emitted is the cut.
C5_FinalFeedLandsOnCut ==
    [][AfterFinalFeed =>
          /\ head_pos = CutTarget
          /\ output' = Append(output, Cmd("cut", 0, 0))]_vars

C5_Witness ==
    /\ AfterFinalFeed
    /\ tipo_etiqueta = "Ingreso Golden Unit"
    /\ alto_etiqueta = 40 /\ gap = 6
    /\ head_pos = Unit(61) + Unit(1) \div 2

\* ------------------------------------------------ claims on the feed calls
\* The call of the harness at position k was made with a distance >= 0.
FirstCall(fn) == Len(calls) >= 1 /\ calls[1].fn = fn

\* C6: feed_forward_mm(d) returns d and appends floor(d / 31.875) commands of
\* 255 steps followed by exactly one remainder command, for every d >= 0
\* (one command in all when d < 31.875; a remainder of 0 steps when d is an
\* exact multiple of 31.875).
C6_ForwardDecomposition ==
    (d >= 0 /\ FirstCall("feed_forward_mm")) =>
        LET c == calls[1].cmds
            n == Len(c)
        IN  /\ calls[1].ret = d
            /\ n >= 1
            /\ (n - 1) * FULL_FEED <= d
            /\ d < n * FULL_FEED
            /\ d < FULL_FEED => n = 1
            /\ \A k \in 1..n : c[k].op = "feed_fwd"
            /\ \A k \in 1..(n - 1) : c[k].a = 255
            /\ c[n].a \in 0..254
            /\ d = (n - 1) * FULL_FEED => c[n].a = 0

C6_Witness ==
    /\ FirstCall("feed_forward_mm")
    /\ d = 2 * FULL_FEED
    /\ Len(calls[1].cmds) = 3
    /\ calls[1].cmds[3].a = 0

\* round() of Python 3 applied to n / SubSteps steps: to the nearest whole
\* step, a tie going to the even one.
RoundSteps(n) ==
    LET q == n \div Step
        r == n % Step
    IN  IF 2 * r < Step THEN q
        ELSE IF 2 * r > Step THEN q + 1
        ELSE IF q % 2 = 0 THEN q ELSE q + 1

\* The remainder command of the first call and the distance it stands for.
RestoCmd == calls[1].cmds[Len(calls[1].cmds)]
RestoDist == d - (Len(calls[1].cmds) - 1) * FULL_FEED

\* C7 (as claimed): for every d >= 0 the step count of the remainder command
\* of a feed call is round(8 * (d mod 31.875)).
C7_RemainderRounded ==
    (d >= 0 /\ Len(calls) >= 1) => RestoCmd.a = RoundSteps(d % FULL_FEED)

\* C7 (amended): the step count s of the remainder command is
\* floor(8 * (d mod 31.875)): the whole number of steps with
\* s/8 <= d mod 31.875 < (s + 1)/8.
C7_RemainderTruncated ==
    (d >= 0 /\ Len(calls) >= 1) =>
        /\ RestoDist \in 0..(FULL_FEED - 1)
        /\ RestoCmd.a * Step <= RestoDist
        /\ RestoDist < (RestoCmd.a + 1) * Step

C7_Witness ==
    /\ FirstCall("feed_backward_mm")
    /\ d = FULL_FEED + 3 * Step + (Step - 1)
    /\ RestoCmd = Cmd("feed_bwd", 3, 0)

\* The paper movement a sequence of feed commands executes, forward
\* positive, in sub-steps.
Executed(buf) ==
    Step * (SumA(SelectSeq(buf, LAMBDA c : c.op = "feed_fwd"))
            - SumA(SelectSeq(buf, LAMBDA c : c.op = "feed_bwd")))

Abs(x) == IF x < 0 THEN -x ELSE x

\* C8: for every d >= 0 the distance the device executes for one feed call
\* (the sum of the step counts, 1/8 mm each) and the value the call returns
\* differ in magnitude by at most 1/8 mm.
C8_ExecutedWithinOneStep ==
    d >= 0 =>
        \A k \in 1..Len(calls) :
            LET moved == Abs(Executed(calls[k].cmds))
                told == Abs(calls[k].ret)
            IN  /\ moved <= told
                /\ told - moved <= Step

C8_Witness ==
    /\ FirstCall("feed_forward_mm")
    /\ d = 2 * FULL_FEED + Unit(5) + (Step - 1)
    /\ Executed(calls[1].cmds) = 2 * FULL_FEED + Unit(5)

\* ------------------------------------------------ claims on the label jobs
\* The opcodes of a complete Ingreso Equipo label after the preamble.
EquipoOps ==
    << "text", "barcode", "feed_fwd", "text", "barcode", "feed_fwd",
       "text", "feed_fwd", "cut" >>

\* An Ingreso Equipo job with a 6-character identifier, before the entries
\* may be emptied.
GoodEquipoJob ==
    /\ handler = "print"
    /\ pc \notin {"done", "closed"}
    /\ tipo_etiqueta = "Ingreso Equipo"
    /\ entrada_osi = 6

\* C9: an Ingreso Equipo job with a 6-character identifier emits, after the
\* preamble, text, barcode, spacing feed, text, barcode, spacing feed, text,
\* final feed, cut, in this order and nothing else: 3 text and 2 barcode
\* emissions, both spacing feeds of the same distance.
C9_EquipoOrder ==
    GoodEquipoJob =>
        LET label == SubSeq(output, PreambleLen + 1, Len(output))
        IN  /\ IsPrefix(Ops(label), EquipoOps)
            /\ Len(label) >= 6 => label[3] = label[6]
            /\ pc \in {"cut", "printed"} =>
                  /\ Ops(label) = EquipoOps
                  /\ CountOps(output, {"text"}) = 3
                  /\ CountOps(output, {"barcode"}) = 2

C9_Witness ==
    /\ GoodEquipoJob /\ pc = "printed"
    /\ alto_etiqueta = 49
    /\ Len(delivered) = 1
    /\ Ops(SubSeq(delivered[1], PreambleLen + 1, Len(delivered[1])))
          = EquipoOps

\* C10: in every label job (button_print_callback and print_excel) the
\* buffer starts with reset, line-feed pitch 0, double width/height, align
\* LEFT, speed class 75, density 130, enhanced print on, double strike on,
\* margins (6, 66), in this order, before any text, barcode, feed or cut.
C10_PreambleFirst ==
    /\ (handler \in {"print", "excel"} /\ output # << >>) =>
            IsPrefix(ConfigExpected, output)
    /\ \A k \in 1..Len(delivered) :
            handler \in {"print", "excel"} /\ Len(delivered[k]) > 1 =>
                IsPrefix(ConfigExpected, delivered[k])

C10_Witness ==
    /\ handler = "excel" /\ pc = "cut" /\ i = 2
    /\ IsPrefix(ConfigExpected, output)
    /\ output[PreambleLen].op = "feed_bwd"

\* A single-label job of one of the four composed label types whose cut
\* command has just been appended.
LabelCut ==
    /\ handler = "print" /\ pc = "cut"
    /\ Len(JobBody) > 0

\* C11 (as claimed): a label with B blocks gets exactly B-1 spacing feeds and
\* none after its last block: the complete buffer holds B forward feeds (the
\* B-1 spacings and the final feed) and the command before the final feed is
\* a printed line, not a feed; a Libre label (B = 5) has 4 spacing feeds.
C11_SpacingBetweenBlocksOnly ==
    LabelCut =>
        /\ CountOps(output, {"feed_fwd"}) = NroBloques(tipo_etiqueta)
        /\ output[Len(output) - 2].op \in {"text", "barcode"}
        /\ output[Len(output) - 1].op = "feed_fwd"

\* The feeds of a buffer that follow its preamble, but for the last n
\* commands.
BodyFeeds(buf, n) ==
    SelectSeq(SubSeq(buf, PreambleLen + 1, Len(buf) - n),
              LAMBDA c : c.op \in {"feed_fwd", "feed_bwd"})

\* An Ingreso Equipo job on labels of height 50 that has passed the length
\* test and computed its spacing.
Equipo50Planned ==
    /\ GoodEquipoJob /\ alto_etiqueta = 50
    /\ pc \in {"body", "cut", "printed"}
    /\ ip > 2

\* C12 (as claimed): for label height 50 (margin 4, 5 lines, 3 blocks) the
\* spacing an Ingreso Equipo job computes and feeds between its blocks is
\* 3.0 mm, 24 feed steps.
C12_SpacingThreeMm ==
    Equipo50Planned =>
        /\ separacion = Unit(3)
        /\ pc = "cut" =>
              \A k \in 1..2 : BodyFeeds(output, 2)[k] = Cmd("feed_fwd", 24, 0)

\* C12 (amended): that spacing is 6.0 mm, 48 feed steps: (50 - 8 - 30) / 2.
C12_SpacingSixMm ==
    Equipo50Planned =>
        /\ separacion = Unit(6)
        /\ pc = "cut" =>
              /\ Len(BodyFeeds(output, 2)) = 2
              /\ \A k \in 1..2 : BodyFeeds(output, 2)[k] = Cmd("feed_fwd", 48, 0)

C12_Witness ==
    /\ Equipo50Planned /\ pc = "cut"
    /\ output[PreambleLen + 3] = Cmd("feed_fwd", 48, 0)
    /\ output[PreambleLen + 6] = Cmd("feed_fwd", 48, 0)

\* The position in the body right after the last printed line.
LastLineIp ==
    CHOOSE k \in 1..(Len(JobBody) + 1) :
        /\ k > 1
        /\ JobBody[k - 1] \in {"text", "barcode"}
        /\ \A j \in k..Len(JobBody) : JobBody[j] \notin {"text", "barcode"}

\* A single-label job composing a label, its spacing computed.
Planned ==
    /\ handler = "print" /\ pc = "body"
    /\ Len(JobBody) > 0
    /\ ip > 1
    /\ "plan" \in {JobBody[k] : k \in 1..(ip - 1)}

\* C13: for every label height and for 3 and 5 blocks (margin 4, 5 lines of
\* 6 mm) the spacing computed is >= 0, a whole number of 1/8 mm steps, and
\* the quotient (H - 2M - 6L)/(B - 1) quantised down to 1/8 mm; the feed
\* command emitted for it carries exactly that many steps; B-1 spacings and
\* the 6L mm of lines add up to H - 2M, so the tracked head after the last
\* printed line is at gap/2 + H - margin.
C13_SpacingExact ==
    Planned =>
        LET B == NroBloques(tipo_etiqueta)
            room == Unit(alto_etiqueta) - 2 * Unit(4) - 5 * Unit(6)
        IN  /\ separacion >= 0
            /\ separacion % Step = 0
            /\ (B - 1) * separacion <= room
            /\ room < (B - 1) * (separacion + Step)
            /\ (B - 1) * separacion + 5 * Unit(6)
                  = Unit(alto_etiqueta) - 2 * Unit(4)
            /\ JobBody[ip - 1] = "sep" =>
                  output[Len(output)]
                      = Cmd("feed_fwd", separacion \div Step, 0)
            /\ ip = LastLineIp =>
                  head_pos = Unit(gap) \div 2 + Unit(alto_etiqueta) - Unit(4)

C13_Witness ==
    /\ Planned /\ ip = LastLineIp
    /\ tipo_etiqueta = "Libre" /\ alto_etiqueta = 49 /\ gap = 4
    /\ separacion = 22 * Step
    /\ head_pos = Unit(47)

\* C14: a batch job over a spreadsheet without rows produces no label: no
\* cut command is emitted and print_buffer is never invoked.
C14_EmptyBatchSendsNothing ==
    (handler = "excel" /\ rows = 0) =>
        /\ delivered = << >>
        /\ CountOps(output, {"cut", "text", "barcode"}) = 0
        /\ pc \in {"configured", "loop", "done"}

C14_Witness ==
    /\ handler = "excel" /\ rows = 0 /\ pc = "done"
    /\ delivered = << >>

\* A buffer holds a complete label: at least one printed line and, as its
\* last two commands, a feed and the only cut.
CompleteLabel(buf) ==
    /\ Len(buf) >= 3
    /\ CountOps(buf, {"text"}) >= 1
    /\ CountOps(buf, {"cut"}) = 1
    /\ buf[Len(buf)].op = "cut"
    /\ buf[Len(buf) - 1].op \in {"feed_fwd", "feed_bwd"}

\* C15 (as claimed): a run of button_print_callback invokes print_buffer at
\* most once, the buffer handed over has exactly one cut command, its last
\* command, and holds one complete label: a job flushes one complete label
\* or sends nothing.
C15_OneCompleteLabelOrNothing ==
    handler = "print" =>
        /\ Len(delivered) <= 1
        /\ \A k \in 1..Len(delivered) :
              /\ CountOps(delivered[k], {"cut"}) = 1
              /\ delivered[k][Len(delivered[k])].op = "cut"
              /\ CompleteLabel(delivered[k])

\* The commands a feed in one direction appends for a magnitude m >= 0, as
\* the protocol decomposes it: full commands of 255 steps, then the rest.
Decomposed(op, m, cmds) ==
    LET n == Len(cmds)
    IN  /\ n = m \div (255 * Step) + 1
        /\ \A k \in 1..n : cmds[k].op = op
        /\ \A k \in 1..(n - 1) : cmds[k].a = 255
        /\ cmds[n].a = (m - (n - 1) * 255 * Step) \div Step

\* C16: a negative distance is redirected to the opposite function with the
\* sign flipped: for d > 0, feed_forward_mm(-d) appends the commands of
\* feed_backward_mm(d) and returns -d, feed_backward_mm(-d) appends the
\* commands of feed_forward_mm(d) and returns d; the value returned always
\* has the sign of the movement executed (positive = forward).
C16_NegativeRedirected ==
    \A k \in 1..Len(calls) :
        LET c == calls[k]
        IN  /\ (d < 0 /\ c.fn = "feed_forward_mm") =>
                  /\ c.cmds = feed_backward_mm(-d).cmds
                  /\ Decomposed("feed_bwd", -d, c.cmds)
                  /\ c.ret = d
            /\ (d < 0 /\ c.fn = "feed_backward_mm") =>
                  /\ c.cmds = feed_forward_mm(-d).cmds
                  /\ Decomposed("feed_fwd", -d, c.cmds)
                  /\ c.ret = -d
            /\ c.ret >= 0 => Executed(c.cmds) \in 0..c.ret
            /\ c.ret <= 0 => Executed(c.cmds) \in c.ret..0

C16_Witness ==
    /\ Len(calls) = 2
    /\ d = -(FULL_FEED + 5 * Step)
    /\ calls[1].fn = "feed_forward_mm" /\ calls[1].ret = d
    /\ calls[2].fn = "feed_backward_mm" /\ calls[2].ret = -d
    /\ Ops(output) = << "feed_bwd", "feed_bwd", "feed_fwd", "feed_fwd" >>

\* feed_forward_mm(d) followed by feed_backward_mm(d).
ForwardThenBackward ==
    /\ Len(calls) >= 2
    /\ calls[1].fn = "feed_forward_mm"
    /\ calls[2].fn = "feed_backward_mm"

\* C17: for every d >= 0, feed_forward_mm(d) followed by feed_backward_mm(d)
\* emit the same number of commands with the same step counts, forward
\* opcodes in the first and backward opcodes in the second, so the movement
\* executed nets to zero and the two returned values sum to zero.
C17_StepCountSymmetry ==
    (d >= 0 /\ ForwardThenBackward) =>
        LET f == calls[1].cmds
            b == calls[2].cmds
        IN  /\ Len(f) = Len(b)
            /\ \A k \in 1..Len(f) :
                  /\ f[k].a = b[k].a
                  /\ f[k].op = "feed_fwd"
                  /\ b[k].op = "feed_bwd"
            /\ Executed(f \o b) = 0
            /\ calls[1].ret + calls[2].ret = 0

C17_Witness ==
    /\ ForwardThenBackward
    /\ d = FULL_FEED + 7 * Step + (Step - 1)
    /\ Len(output) = 4
    /\ output[2].a = 7 /\ output[4].a = 7

\* -------------------------------------------------------- encoder harness
\* The clamping and defaulting setters applied, on a fresh printer, to one
\* integer drawn from -MaxArg .. MaxArg (set_alignment to a name), up to
\* MaxCalls calls in a row.
MaxArg == 300
AlignArgs == {"LEFT", "CENTER", "RIGHT", "JUSTIFY", "left"}

InitEnc ==
    /\ tipo_etiqueta = "Salida Parte"
    /\ alto_etiqueta = 50
    /\ gap = 5
    /\ entrada_osi = 0
    /\ checkbox_borrado = FALSE
    /\ handler = "encoder"
    /\ pc = "encoder"
    /\ ip = 0
    /\ output = << >>
    /\ head_pos = 0
    /\ separacion = 0
    /\ delivered = << >>
    /\ rows = 0
    /\ i = 0
    /\ d \in -MaxArg..MaxArg
    /\ calls = << >>

\* A setter was called with arg and appended cmd, unless the byte
\* conversion raised.
Set(fn, arg, cmd) ==
    LET cmds == IF cmd.a = -1 THEN << >> ELSE << cmd >>
    IN  /\ pc = "encoder" /\ Len(calls) < MaxCalls
        /\ output' = output \o cmds
        /\ calls' = Append(calls, [fn |-> fn, arg |-> arg, cmds |-> cmds,
                                   raised |-> cmd.a = -1])
        /\ UNCHANGED << ui, handler, pc, ip, head_pos, separacion, delivered,
                        rows, i, d >>

CallSetPrintDensity == Set("set_print_density", d, set_print_density(d))

CallSetMaxPrintSpeed == Set("set_max_print_speed", d, set_max_print_speed(d))

CallSetAlignment ==
    \E a \in AlignArgs : Set("set_alignment", a, set_alignment(a))

CallSetBarcodeWidth == Set("set_barcode_width", d, set_barcode_width(d))

CallSetLfPitch == Set("set_lf_pitch", d, set_lf_pitch(d))

NextEnc ==
    \/ CallSetPrintDensity
    \/ CallSetMaxPrintSpeed
    \/ CallSetAlignment
    \/ CallSetBarcodeWidth
    \/ CallSetLfPitch

SpecEnc == InitEnc /\ [][NextEnc]_vars

Min(a, b) == IF a < b THEN a ELSE b
Max(a, b) == IF a > b THEN a ELSE b

\* C18: set_print_density(x) never fails and encodes exactly one density
\* byte, min(130, max(65, x)), for every integer x: 50 gives 65, 200 gives
\* 130, 100 gives 100.
C18_DensityClamped ==
    \A k \in 1..Len(calls) :
        calls[k].fn = "set_print_density" =>
            /\ ~calls[k].raised
            /\ calls[k].cmds = << Cmd("density", Min(130, Max(65, d)), 0) >>
            /\ d = 50 => calls[k].cmds[1].a = 65
            /\ d = 200 => calls[k].cmds[1].a = 130
            /\ d = 100 => calls[k].cmds[1].a = 100

C18_Witness ==
    /\ Len(calls) = 1 /\ d = 200
    /\ calls[1].fn = "set_print_density"
    /\ output = << Cmd("density", 130, 0) >>

\* C19: out-of-domain arguments never abort and always append exactly one
\* command carrying the fallback: a speed outside {200, 150, 125, 100}
\* encodes the 75 mm/s class (byte 4), an alignment other than RIGHT or
\* CENTER encodes LEFT (byte 0), a barcode width other than 2 or 4 encodes
\* 3, and the line-feed pitch is clamped to 0..255.
C19_FallbacksEncoded ==
    \A k \in 1..Len(calls) :
        LET c == calls[k]
        IN  /\ ~c.raised
            /\ Len(c.cmds) = 1
            /\ (c.fn = "set_max_print_speed" /\ d \notin {200, 150, 125, 100})
                  => c.cmds[1] = Cmd("speed", 4, 0)
            /\ (c.fn = "set_alignment" /\ c.arg \notin {"RIGHT", "CENTER"})
                  => c.cmds[1] = Cmd("align", 0, 0)
            /\ (c.fn = "set_barcode_width" /\ d \notin {2, 4})
                  => c.cmds[1] = Cmd("bc_width", 3, 0)
            /\ c.fn = "set_lf_pitch"
                  => c.cmds[1] = Cmd("lf_pitch", Min(255, Max(0, d)), 0)

C19_Witness ==
    /\ Len(calls) = 2 /\ d = -1
    /\ calls[1].fn = "set_lf_pitch"
    /\ calls[2].fn = "set_alignment" /\ calls[2].arg = "JUSTIFY"
    /\ output = << Cmd("lf_pitch", 0, 0), Cmd("align", 0, 0) >>

RECURSIVE ExecutedAll(_)
\* The paper movement a sequence of buffers executes.
ExecutedAll(bufs) ==
    IF bufs = << >> THEN 0
    ELSE Executed(Head(bufs)) + ExecutedAll(Tail(bufs))

\* The buffers the job had sent on their own by a call of
\* button_forward_callback: a single feed command each.
JogBuffers == SelectSeq(delivered, LAMBDA b : Len(b) = 1)

\* A label job that has aligned the head and not yet closed its printer.
Tracking ==
    /\ handler \in {"print", "excel"}
    /\ pc \in {"body", "loop", "cut", "printed"}

\* C20 (as claimed): in any job, a batch job of any number of rows included,
\* every feed issued to the device after the alignment feed has had its
\* signed distance added to head_pos: head_pos is margin + gap/2, plus 6 mm
\* per printed text or barcode line, plus the signed sum of those feeds.
C20_HeadPosTracksEveryFeed ==
    Tracking =>
        head_pos = Unit(4) + Unit(gap) \div 2
                   + Unit(6) * CountOps(output, {"text", "barcode"})
                   + Executed(SubSeq(output, PreambleLen + 1, Len(output)))
                   + ExecutedAll(JogBuffers)

\* A label job that has made its alignment feed.
Aligned ==
    /\ handler \in {"print", "excel"}
    /\ pc \in {"body", "loop", "cut", "printed"}

\* A label job right after its alignment feed, nothing composed yet.
JustAligned ==
    /\ Aligned
    /\ Len(output) = PreambleLen
    /\ handler = "print" => ip = 1
    /\ handler = "excel" => i = 0

\* C21: for each gap the first feed command of a label job, right after
\* the nine configuration commands, is a single backward feed of
\* cutterOffset - gap/2 - margin + postCutAdvance = 7.5 - gap/2 mm: 44, 40
\* and 36 steps for gaps 4, 5 and 6; the value it returns is not added to
\* the head position, which is then margin + gap/2.
C21_AlignmentFeed ==
    Aligned =>
        /\ Len(output) >= PreambleLen
        /\ \A k \in 1..(PreambleLen - 1) :
              output[k].op \notin {"feed_fwd", "feed_bwd"}
        /\ output[PreambleLen] = Cmd("feed_bwd", 60 - 4 * gap, 0)
        /\ gap = 4 => output[PreambleLen].a = 44
        /\ gap = 5 => output[PreambleLen].a = 40
        /\ gap = 6 => output[PreambleLen].a = 36
        /\ Len(output) > PreambleLen =>
              output[PreambleLen + 1].op # "feed_bwd"
        /\ JustAligned => head_pos = Unit(4) + Unit(gap) \div 2

C21_Witness ==
    /\ JustAligned /\ handler = "print"
    /\ gap = 6
    /\ output[PreambleLen] = Cmd("feed_bwd", 36, 0)
    /\ head_pos = Unit(7)

\* A single-label job between its alignment feed and the closing of its
\* printer.
SingleTracking == handler = "print" /\ Aligned

\* The distance the next statement passes to a feed function, 0 when the
\* next statement is not a feed.
NextFeedDistance ==
    CASE Instr = "sep" -> separacion
      [] Instr = "final" ->
            Unit(alto_etiqueta) + Unit(gap) - head_pos + Unit(19) \div 2
                + (IF tipo_etiqueta \in Intake THEN Unit(6) ELSE 0)
      [] OTHER -> 0

\* C22: in every single-label job (four label types, heights 40, 49, 50,
\* gaps 4, 5, 6) every distance passed to a feed function is a whole number
\* of 1/8 mm steps, so at every point of the job the movement the device
\* executes after the alignment feed equals the displacement accumulated
\* in head_pos: no drift.
C22_NoDrift ==
    SingleTracking =>
        /\ (Unit(15) \div 2 - Unit(gap) \div 2) % Step = 0
        /\ output[PreambleLen].a * Step = Unit(15) \div 2 - Unit(gap) \div 2
        /\ pc = "body" => NextFeedDistance % Step = 0
        /\ head_pos - (Unit(4) + Unit(gap) \div 2)
              = Unit(6) * CountOps(output, {"text", "barcode"})
                + Executed(SubSeq(output, PreambleLen + 1, Len(output)))

C22_Witness ==
    /\ SingleTracking /\ pc = "cut"
    /\ tipo_etiqueta = "Libre" /\ alto_etiqueta = 49 /\ gap = 5
    /\ head_pos = Unit(63) + Unit(1) \div 2
    /\ Executed(SubSeq(output, PreambleLen + 1, Len(output)))
          = Unit(27)

\* C23: in every single-label job the final feed distance is >= 0 and below
\* 31.875 mm, so the final feed is exactly one forward command with a step
\* count in 0..254, and it is the command right before the cut.
C23_FinalFeedOneForwardCommand ==
    [][/\ (handler = "print" /\ pc = "body" /\ Instr = "final") =>
            /\ NextFeedDistance \in 0..(255 * Step - 1)
            /\ Len(output') = Len(output) + 1
            /\ output'[Len(output')].op = "feed_fwd"
            /\ output'[Len(output')].a \in 0..254
            /\ output'[Len(output')].a * Step = NextFeedDistance
            /\ Instr' = "end"
       /\ (handler = "print" /\ pc = "body" /\ Instr = "end"
              /\ Len(JobBody) > 0) =>
            /\ output[Len(output)].op = "feed_fwd"
            /\ output' = Append(output, Cmd("cut", 0, 0))]_vars

C23_Witness ==
    /\ LabelCut
    /\ tipo_etiqueta = "Libre" /\ alto_etiqueta = 50 /\ gap = 4
    /\ output[Len(output) - 1] = Cmd("feed_fwd", 100, 0)

\* What a buffer holds after its preamble and before its last command.
Composed(buf) == SubSeq(buf, PreambleLen + 1, Len(buf) - 1)

\* A buffer ending in a cut carries a composed label: after the preamble at
\* least one text emission, and a final feed right before the cut.
CutsComposedLabel(buf) ==
    /\ CountOps(Composed(buf), {"text"}) >= 1
    /\ Len(Composed(buf)) >= 1
    /\ Composed(buf)[Len(Composed(buf))].op \in {"feed_fwd", "feed_bwd"}

\* C24 (as claimed): for every label type of the menu, button_print_callback
\* emits a cut and invokes print_buffer only for a composed label: a buffer
\* that has received its cut, and any buffer handed to print_buffer, holds
\* at least one text emission and a final feed before the cut.
C24_CutOnlyComposedLabel ==
    handler = "print" =>
        /\ pc = "cut" => CutsComposedLabel(output)
        /\ \A k \in 1..Len(delivered) : CutsComposedLabel(delivered[k])

====
